---- MODULE Spec2Model ----
(***************************************************************************)
(* Model of the financial-analyzer Python engine:                          *)
(*   chart_tools.py      ChartGenerator (active Table, Context, charts)    *)
(*   financial_agent.py  FinancialAnalysisAgent (memory, bounded loop)     *)
(*   api_bridge.py       FinancialAnalysisBridge, process_kotlin_request   *)
(***************************************************************************)
EXTENDS Integers, Sequences, FiniteSets, TLC

(***************************************************************************)
(* Bounds of the model.                                                    *)
(***************************************************************************)
\* last clock second the model lets the wall clock reach
MaxClock == 2
\* chart files the capabilities called on a generator may write
MaxWrites == 2
\* chart files the chats of one agent may write
MaxChatWrites == 1
\* chat calls made on one agent
MaxChats == 2
\* process_kotlin_request invocations in one run
MaxRequests == 2
\* chat calls of a run that exercises the capabilities on every Table
MaxToolChats == 1
\* tool calls of one chat that are not the first tool call of their answer
MaxExtraCalls == 1

(***************************************************************************)
(* Text: strings are looked at through their characters, so that lower(),  *)
(* `in` and endswith() are computed and not assumed.                       *)
(***************************************************************************)
Text(s) ==
    CASE s = "" -> << >>
      [] s = "Month" -> <<"M","o","n","t","h">>
      [] s = "Revenue" -> <<"R","e","v","e","n","u","e">>
      [] s = "Expenses" -> <<"E","x","p","e","n","s","e","s">>
      [] s = "Date" -> <<"D","a","t","e">>
      [] s = "Amount" -> <<"A","m","o","u","n","t">>
      [] s = "Timestamp" -> <<"T","i","m","e","s","t","a","m","p">>
      [] s = "Value" -> <<"V","a","l","u","e">>
      [] s = "Updated" -> <<"U","p","d","a","t","e","d">>
      [] s = "Label" -> <<"L","a","b","e","l">>
      [] s = "Score" -> <<"S","c","o","r","e">>
      [] s = "sales.csv" -> <<"s","a","l","e","s",".","c","s","v">>
      [] s = "daily.xlsx" -> <<"d","a","i","l","y",".","x","l","s","x">>
      [] s = "metrics.xls" -> <<"m","e","t","r","i","c","s",".","x","l","s">>
      [] s = "log.csv" -> <<"l","o","g",".","c","s","v">>
      [] s = "missing.csv" -> <<"m","i","s","s","i","n","g",".","c","s","v">>
      [] s = "broken.csv" -> <<"b","r","o","k","e","n",".","c","s","v">>
      [] s = "notes.txt" -> <<"n","o","t","e","s",".","t","x","t">>
      [] s = "2024-03-01" -> <<"2","0","2","4","-","0","3","-","0","1">>
      [] s = "2024-01-15" -> <<"2","0","2","4","-","0","1","-","1","5">>
      [] s = "2024-02-10" -> <<"2","0","2","4","-","0","2","-","1","0">>
      [] s = "tbd" -> <<"t","b","d">>
      [] s = "soon" -> <<"s","o","o","n">>
      [] s = "Jan" -> <<"J","a","n">>
      [] s = "Feb" -> <<"F","e","b">>
      [] s = "Mar" -> <<"M","a","r">>
      [] s = "Show revenue by month" ->
           <<"S","h","o","w"," ","r","e","v","e","n","u","e"," ","b","y"," ",
             "m","o","n","t","h">>
      [] s = "Liste a tabela" ->
           <<"L","i","s","t","e"," ","a"," ","t","a","b","e","l","a">>
      [] s = "list the table" ->
           <<"l","i","s","t"," ","t","h","e"," ","t","a","b","l","e">>
      [] s = "tabela" -> <<"t","a","b","e","l","a">>
      [] s = "relat<U+221A><U+2265>rio" ->
           <<"r","e","l","a","t","<U+221A>","<U+2265>","r","i","o">>
      [] s = "table" -> <<"t","a","b","l","e">>
      [] s = "report" -> <<"r","e","p","o","r","t">>
      [] s = "list" -> <<"l","i","s","t">>
      [] s = "compare" -> <<"c","o","m","p","a","r","e">>
      [] s = "mostre dados" -> <<"m","o","s","t","r","e"," ","d","a","d","o","s">>
      [] s = "gere uma" -> <<"g","e","r","e"," ","u","m","a">>
      [] s = "liste" -> <<"l","i","s","t","e">>
      [] s = "breakdown" -> <<"b","r","e","a","k","d","o","w","n">>
      [] s = "No data loaded. Please load a CSV or Excel file first." ->
           <<"N","o"," ","d","a","t","a"," ","l","o","a","d","e","d",".",
             " ","P","l","e","a","s","e"," ","l","o","a","d"," ","a"," ",
             "C","S","V"," ","o","r"," ","E","x","c","e","l"," ","f","i",
             "l","e"," ","f","i","r","s","t",".">>
      [] s = "Data doesn't have suitable columns for bar chart" ->
           <<"D","a","t","a"," ","d","o","e","s","n","'","t"," ","h","a",
             "v","e"," ","s","u","i","t","a","b","l","e"," ","c","o","l",
             "u","m","n","s"," ","f","o","r"," ","b","a","r"," ","c","h",
             "a","r","t">>
      [] s = "Bar chart generated successfully: " ->
           <<"B","a","r"," ","c","h","a","r","t"," ","g","e","n","e","r",
             "a","t","e","d"," ","s","u","c","c","e","s","s","f","u","l",
             "l","y",":"," ">>
      [] s = "Data doesn't have suitable date and numeric columns for line chart" ->
           <<"D","a","t","a"," ","d","o","e","s","n","'","t"," ","h","a",
             "v","e"," ","s","u","i","t","a","b","l","e"," ","d","a","t",
             "e"," ","a","n","d"," ","n","u","m","e","r","i","c"," ","c",
             "o","l","u","m","n","s"," ","f","o","r"," ","l","i","n","e",
             " ","c","h","a","r","t">>
      [] s = "Error generating line chart: " ->
           <<"E","r","r","o","r"," ","g","e","n","e","r","a","t","i","n",
             "g"," ","l","i","n","e"," ","c","h","a","r","t",":"," ">>
      [] s = "Line chart generated successfully: " ->
           <<"L","i","n","e"," ","c","h","a","r","t"," ","g","e","n","e",
             "r","a","t","e","d"," ","s","u","c","c","e","s","s","f","u",
             "l","l","y",":"," ">>
      [] s = "Data doesn't have categorical columns for pie chart" ->
           <<"D","a","t","a"," ","d","o","e","s","n","'","t"," ","h","a",
             "v","e"," ","c","a","t","e","g","o","r","i","c","a","l"," ",
             "c","o","l","u","m","n","s"," ","f","o","r"," ","p","i","e",
             " ","c","h","a","r","t">>
      [] s = "Pie chart generated successfully: " ->
           <<"P","i","e"," ","c","h","a","r","t"," ","g","e","n","e","r",
             "a","t","e","d"," ","s","u","c","c","e","s","s","f","u","l",
             "l","y",":"," ">>
      [] s = "Need at least 2 numeric columns for correlation heatmap" ->
           <<"N","e","e","d"," ","a","t"," ","l","e","a","s","t"," ","2",
             " ","n","u","m","e","r","i","c"," ","c","o","l","u","m","n",
             "s"," ","f","o","r"," ","c","o","r","r","e","l","a","t","i",
             "o","n"," ","h","e","a","t","m","a","p">>
      [] s = "Heatmap generated successfully: " ->
           <<"H","e","a","t","m","a","p"," ","g","e","n","e","r","a","t",
             "e","d"," ","s","u","c","c","e","s","s","f","u","l","l","y",
             ":"," ">>
      [] s = "Data Information:" ->
           <<"D","a","t","a"," ","I","n","f","o","r","m","a","t","i","o",
             "n",":">>
      [] s = "correlation" ->
           <<"c","o","r","r","e","l","a","t","i","o","n">>
      [] s = "No data loaded" ->
           <<"N","o"," ","d","a","t","a"," ","l","o","a","d","e","d">>
      [] s = "bar_chart" ->
           <<"b","a","r","_","c","h","a","r","t">>
      [] s = "line_chart" ->
           <<"l","i","n","e","_","c","h","a","r","t">>
      [] s = "pie_chart" ->
           <<"p","i","e","_","c","h","a","r","t">>
      [] s = "heatmap" ->
           <<"h","e","a","t","m","a","p">>
      [] s = ".png" ->
           <<".","p","n","g">>
      [] s = "Error generating bar chart: " ->
           <<"E","r","r","o","r"," ","g","e","n","e","r","a","t","i",
             "n","g"," ","b","a","r"," ","c","h","a","r","t",":"," ">>
      [] s = "Agent not initialized" ->
           <<"A","g","e","n","t"," ","n","o","t"," ","i","n","i","t","i",
             "a","l","i","z","e","d">>
      [] s = "not initialized" ->
           <<"n","o","t"," ","i","n","i","t","i","a","l","i","z","e","d">>
      [] s = "Conversation cleared" ->
           <<"C","o","n","v","e","r","s","a","t","i","o","n"," ","c","l",
             "e","a","r","e","d">>
      [] s = "File not found" ->
           <<"F","i","l","e"," ","n","o","t"," ","f","o","u","n","d">>
      [] s = "Data loaded successfully from " ->
           <<"D","a","t","a"," ","l","o","a","d","e","d"," ","s","u","c",
             "c","e","s","s","f","u","l","l","y"," ","f","r","o","m"," ">>
      [] s = "Failed to load data from " ->
           <<"F","a","i","l","e","d"," ","t","o"," ","l","o","a","d"," ",
             "d","a","t","a"," ","f","r","o","m"," ">>
      [] s = "Error processing request: " ->
           <<"E","r","r","o","r"," ","p","r","o","c","e","s","s","i","n",
             "g"," ","r","e","q","u","e","s","t",":"," ">>
      [] s = "Revenue is highest in March." ->
           <<"R","e","v","e","n","u","e"," ","i","s"," ","h","i","g",
             "h","e","s","t"," ","i","n"," ","M","a","r","c","h",".">>
      [] s = "Failed to initialize agent: ANTHROPIC_AP"
                \o "I_KEY not found in environment variables or parameters" ->
           <<"F","a","i","l","e","d"," ","t","o"," ","i","n","i","t","i",
             "a","l","i","z","e"," ","a","g","e","n","t",":"," ","A","N",
             "T","H","R","O","P","I","C","_","A","P","I","_","K","E","Y",
             " ","n","o","t"," ","f","o","u","n","d"," ","i","n"," ","e",
             "n","v","i","r","o","n","m","e","n","t"," ","v","a","r","i",
             "a","b","l","e","s"," ","o","r"," ","p","a","r","a","m","e",
             "t","e","r","s">>
      [] s = "ANTHROPIC_API_KEY" ->
           <<"A","N","T","H","R","O","P","I","C","_","A","P","I","_","K",
             "E","Y">>
      [] s = "result.json" ->
           <<"r","e","s","u","l","t",".","j","s","o","n">>
      [] s = "summary_20240101_000000.png" ->
           <<"s","u","m","m","a","r","y","_","2","0","2","4","0","1","0",
             "1","_","0","0","0","0","0","0",".","p","n","g">>
      [] s = "pie_chart_20240101_000000.png" ->
           <<"p","i","e","_","c","h","a","r","t","_","2","0","2","4","0",
             "1","0","1","_","0","0","0","0","0","0",".","p","n","g">>
      [] s = "summary" ->
           <<"s","u","m","m","a","r","y">>
      [] s = "date" -> <<"d","a","t","e">>
      [] s = "time" -> <<"t","i","m","e">>
      [] s = ".csv" -> <<".","c","s","v">>
      [] s = ".xlsx" -> <<".","x","l","s","x">>
      [] s = ".xls" -> <<".","x","l","s">>

UpperCase == <<"A","B","C","D","E","F","G","H","I","J","K","L","M",
               "N","O","P","Q","R","S","T","U","V","W","X","Y","Z">>
LowerCase == <<"a","b","c","d","e","f","g","h","i","j","k","l","m",
               "n","o","p","q","r","s","t","u","v","w","x","y","z">>

\* str.lower(), one character
LowerChar(c) ==
    IF \E i \in 1..26 : UpperCase[i] = c
    THEN LowerCase[CHOOSE i \in 1..26 : UpperCase[i] = c]
    ELSE c

\* str.lower()
Lower(t) == [i \in 1..Len(t) |-> LowerChar(t[i])]

\* `sub in t` on strings
Contains(sub, t) ==
    \E i \in 1..(Len(t) - Len(sub) + 1) : SubSeq(t, i, i + Len(sub) - 1) = sub

\* t.endswith(suffix)
EndsWith(t, suffix) ==
    /\ Len(suffix) <= Len(t)
    /\ SubSeq(t, Len(t) - Len(suffix) + 1, Len(t)) = suffix

Digits == <<"0","1","2","3","4","5","6","7","8","9">>
IsDigit(c) == \E i \in 1..10 : Digits[i] = c
DigitVal(c) == (CHOOSE i \in 1..10 : Digits[i] = c) - 1

(***************************************************************************)
(* Cells, columns and Tables (pandas DataFrame).                           *)
(***************************************************************************)
StrCell(s) == [t |-> "str", s |-> s, n |-> 0]
NumCell(n) == [t |-> "num", s |-> "", n |-> n]
TsCell(n) == [t |-> "ts", s |-> "", n |-> n]

\* whether pd.to_datetime accepts the text: an ISO date yyyy-mm-dd
IsIsoDate(t) ==
    /\ Len(t) = 10
    /\ t[5] = "-" /\ t[8] = "-"
    /\ \A i \in {1, 2, 3, 4, 6, 7, 9, 10} : IsDigit(t[i])

\* the chronological value of an ISO date
IsoDateValue(t) ==
    (DigitVal(t[1]) * 1000 + DigitVal(t[2]) * 100 + DigitVal(t[3]) * 10
        + DigitVal(t[4])) * 10000
    + (DigitVal(t[6]) * 10 + DigitVal(t[7])) * 100
    + DigitVal(t[9]) * 10 + DigitVal(t[10])

\* pd.to_datetime on one value: numbers and timestamps convert, text must parse
CanConvertCell(c) == c.t = "str" => IsIsoDate(Text(c.s))
ToDatetimeCell(c) ==
    IF c.t = "str" THEN TsCell(IsoDateValue(Text(c.s))) ELSE TsCell(c.n)

Col(name, dtype) == [name |-> name, dtype |-> dtype]

SalesTable ==
    [cols |-> <<Col("Month", "object"), Col("Revenue", "number"),
                Col("Expenses", "number")>>,
     rows |-> << <<StrCell("Jan"), NumCell(50), NumCell(30)>>,
                 <<StrCell("Feb"), NumCell(55), NumCell(32)>>,
                 <<StrCell("Jan"), NumCell(10), NumCell(28)>>,
                 <<StrCell("Mar"), NumCell(62), NumCell(35)>> >>]

DailyTable ==
    [cols |-> <<Col("Date", "object"), Col("Amount", "number")>>,
     rows |-> << <<StrCell("2024-03-01"), NumCell(7)>>,
                 <<StrCell("2024-01-15"), NumCell(9)>>,
                 <<StrCell("2024-02-10"), NumCell(4)>> >>]

MetricsTable ==
    [cols |-> <<Col("Timestamp", "number"), Col("Value", "number")>>,
     rows |-> << <<NumCell(3), NumCell(11)>>,
                 <<NumCell(1), NumCell(12)>> >>]

LogTable ==
    [cols |-> <<Col("Updated", "object"), Col("Label", "object"),
                Col("Score", "number")>>,
     rows |-> << <<StrCell("tbd"), StrCell("x"), NumCell(1)>>,
                 <<StrCell("soon"), StrCell("y"), NumCell(2)>>,
                 <<StrCell("tbd"), StrCell("x"), NumCell(3)>>,
                 <<StrCell("soon"), StrCell("z"), NumCell(4)>>,
                 <<StrCell("tbd"), StrCell("z"), NumCell(5)>> >>]

NoTable == [cols |-> << >>, rows |-> << >>]

(***************************************************************************)
(* The input files a load can be pointed at.                               *)
(***************************************************************************)
Paths == {"sales.csv", "daily.xlsx", "metrics.xls", "log.csv",
          "missing.csv", "broken.csv", "notes.txt"}

\* what is on disk at each path: "table", "malformed" content, or "absent"
DiskKind(p) ==
    CASE p \in {"sales.csv", "daily.xlsx", "metrics.xls", "log.csv", "notes.txt"}
           -> "table"
      [] p = "broken.csv" -> "malformed"
      [] OTHER -> "absent"

DiskTable(p) ==
    CASE p = "sales.csv" -> SalesTable
      [] p = "daily.xlsx" -> DailyTable
      [] p = "metrics.xls" -> MetricsTable
      [] p = "log.csv" -> LogTable
      [] OTHER -> NoTable

(***************************************************************************)
(* ChartGenerator: the active Table, its Context, the output directory.    *)
(***************************************************************************)
\* current_data is None (chart_tools.py:24)
None == [none |-> TRUE]

\* data_context == {} (chart_tools.py:25)
EmptyContext == [columns |-> << >>, shape |-> <<0, 0>>, dtypes |-> << >>,
                 sample |-> << >>]

\* DataFrame.shape
Shape(table) == <<Len(table.rows), Len(table.cols)>>

\* DataFrame.head(n)
HeadRows(table, n) ==
    SubSeq(table.rows, 1, IF Len(table.rows) < n THEN Len(table.rows) ELSE n)

SampleRows == 3

\* the Context stored by a load: columns, shape, dtypes, sample
ContextOf(table) ==
    [columns |-> [i \in 1..Len(table.cols) |-> table.cols[i].name],
     shape |-> Shape(table),
     dtypes |-> [i \in 1..Len(table.cols) |-> table.cols[i].dtype],
     sample |-> HeadRows(table, SampleRows)]

\* the branch of load_data a path takes on its extension
Extension(p) ==
    IF EndsWith(Text(p), Text(".csv")) THEN "csv"
    ELSE IF EndsWith(Text(p), Text(".xlsx")) \/ EndsWith(Text(p), Text(".xls"))
         THEN "excel"
         ELSE "unsupported"

\* pd.read_csv / pd.read_excel: raises on a missing path or malformed content
ReadRaises(p) == DiskKind(p) # "table"

\* a variant of load_data that drops the active Table before it reads
ChartLoadDataDropsFirst(data, context, p) ==
    IF Extension(p) = "unsupported"
    THEN [data |-> data, context |-> context, ok |-> FALSE]
    ELSE IF ReadRaises(p)
         THEN [data |-> None, context |-> EmptyContext, ok |-> FALSE]
         ELSE [data |-> DiskTable(p), context |-> ContextOf(DiskTable(p)),
               ok |-> TRUE]

\* ChartGenerator.load_data: the new (current_data, data_context) and the
\* boolean it returns; a reader that raises leaves both fields as they were
ChartLoadData(data, context, p) ==
    IF Extension(p) = "unsupported"
    THEN [data |-> data, context |-> context, ok |-> FALSE]
    ELSE IF ReadRaises(p)
         THEN [data |-> data, context |-> context, ok |-> FALSE]
         ELSE [data |-> DiskTable(p), context |-> ContextOf(DiskTable(p)),
               ok |-> TRUE]

\* indices of the columns select_dtypes(include=[dtype]) keeps, in column order
ColsOfDtype(table, dtype) ==
    {i \in 1..Len(table.cols) : table.cols[i].dtype = dtype}

\* indices of the columns whose lowered name contains 'date' or 'time'
DateCols(table) ==
    {i \in 1..Len(table.cols) :
        \/ Contains(Text("date"), Lower(Text(table.cols[i].name)))
        \/ Contains(Text("time"), Lower(Text(table.cols[i].name)))}

\* cols[0] of a non-empty selection
First(S) == CHOOSE i \in S : \A j \in S : i <= j

\* self.current_data[col] = pd.to_datetime(self.current_data[col])
ColumnConvertible(table, c) ==
    \A r \in 1..Len(table.rows) : CanConvertCell(table.rows[r][c])

WithDatetimeColumn(table, c) ==
    [cols |-> [table.cols EXCEPT ![c] = Col(table.cols[c].name, "datetime")],
     rows |-> [r \in 1..Len(table.rows) |->
                 [table.rows[r] EXCEPT ![c] = ToDatetimeCell(table.rows[r][c])]]]

\* a chart file name: <prefix>_<timestamp>.png, the timestamp in whole seconds
FileName(prefix, now) == [prefix |-> prefix, ts |-> now]
NoFile == [prefix |-> "", ts |-> 0]

\* what a capability returns and does: the text, the file it saved (or
\* NoFile), and the Table it leaves in current_data
Outcome(kind, text, file, data) ==
    [kind |-> kind, text |-> text, file |-> file, data |-> data]

NoDataOutcome ==
    Outcome("no_data", "No data loaded. Please load a CSV or Excel file first.",
            NoFile, None)

\* a variant of generate_bar_chart without the test for a missing Table: the
\* attribute error of None is caught by its except branch
GenerateBarChartNoGuard(data, now) ==
    IF data = None
    THEN Outcome("error", "Error generating bar chart: ", NoFile, None)
    ELSE IF ColsOfDtype(data, "number") = {} \/ ColsOfDtype(data, "object") = {}
    THEN Outcome("unsuitable",
                 "Data doesn't have suitable columns for bar chart", NoFile, data)
    ELSE Outcome("generated", "Bar chart generated successfully: ",
                 FileName("bar_chart", now), data)

\* ChartGenerator.generate_bar_chart
GenerateBarChart(data, now) ==
    IF data = None THEN NoDataOutcome
    ELSE IF ColsOfDtype(data, "number") = {} \/ ColsOfDtype(data, "object") = {}
    THEN Outcome("unsuitable",
                 "Data doesn't have suitable columns for bar chart", NoFile, data)
    ELSE Outcome("generated", "Bar chart generated successfully: ",
                 FileName("bar_chart", now), data)

\* the printable characters in code point order, from the space (32) on
\* (the grave accent, 96, is held by a place of its own)
Ascii ==
    <<" ","!","\"","#","$","%","&","'","(",")","*","+",",","-",".","/",
      "0","1","2","3","4","5","6","7","8","9",":",";","<","=",">","?",
      "@","A","B","C","D","E","F","G","H","I","J","K","L","M","N","O",
      "P","Q","R","S","T","U","V","W","X","Y","Z","[","\\","]","^","_",
      "<96>","a","b","c","d","e","f","g","h","i","j","k","l","m","n","o",
      "p","q","r","s","t","u","v","w","x","y","z","{","|","}","~">>

\* ord(c)
Ord(c) == 31 + (CHOOSE i \in 1..Len(Ascii) : Ascii[i] = c)

\* a < b on strings: by the first character that differs, a prefix first
TextLess(a, b) ==
    LET n == IF Len(a) < Len(b) THEN Len(a) ELSE Len(b)
        d == {i \in 1..n : a[i] # b[i]}
    IN IF d = {} THEN Len(a) < Len(b)
       ELSE Ord(a[First(d)]) < Ord(b[First(d)])

\* the order groupby puts the group keys in (sort=True): text keys as
\* strings, other keys by value
KeyLess(a, b) ==
    IF a.t = "str" /\ b.t = "str" THEN TextLess(Text(a.s), Text(b.s))
    ELSE a.n < b.n

\* groupby(x_col)[y_col].sum(): the rows are folded into one bar a key, the
\* bars in the order of their keys
RECURSIVE GroupSums(_, _, _, _)
GroupSums(rows, x, y, bars) ==
    IF rows = << >> THEN bars
    ELSE LET key == Head(rows)[x]
             val == Head(rows)[y].n
             at == {i \in 1..Len(bars) : bars[i].key = key}
             k == Cardinality({i \in 1..Len(bars) : KeyLess(bars[i].key, key)})
         IN GroupSums(Tail(rows), x, y,
                      IF at = {}
                      THEN SubSeq(bars, 1, k) \o <<[key |-> key, sum |-> val]>>
                              \o SubSeq(bars, k + 1, Len(bars))
                      ELSE [bars EXCEPT ![First(at)].sum = @ + val])

\* sort_values(ascending=True): insertion of each bar after the smaller ones
RECURSIVE SortAscending(_)
SortAscending(bars) ==
    IF bars = << >> THEN << >>
    ELSE LET rest == SortAscending(Tail(bars))
             b == Head(bars)
             k == Cardinality({i \in 1..Len(rest) : rest[i].sum < b.sum})
         IN SubSeq(rest, 1, k) \o <<b>> \o SubSeq(rest, k + 1, Len(rest))

\* sort_values(ascending=False): insertion of each bar after the larger ones
RECURSIVE SortDescending(_)
SortDescending(bars) ==
    IF bars = << >> THEN << >>
    ELSE LET rest == SortDescending(Tail(bars))
             b == Head(bars)
             k == Cardinality({i \in 1..Len(rest) : rest[i].sum > b.sum})
         IN SubSeq(rest, 1, k) \o <<b>> \o SubSeq(rest, k + 1, Len(rest))

NoChart == [x |-> "", y |-> "", bars |-> << >>]

\* a variant of the bar chart whose groups are sorted ascending
BarChartAscending(table) ==
    LET x == First(ColsOfDtype(table, "object"))
        y == First(ColsOfDtype(table, "number"))
    IN [x |-> table.cols[x].name, y |-> table.cols[y].name,
        bars |-> SortAscending(GroupSums(table.rows, x, y, << >>))]

\* what generate_bar_chart draws (chart_tools.py:66-73): the axes and the
\* bars, left to right
BarChart(table) ==
    LET x == First(ColsOfDtype(table, "object"))
        y == First(ColsOfDtype(table, "number"))
    IN [x |-> table.cols[x].name, y |-> table.cols[y].name,
        bars |-> SortDescending(GroupSums(table.rows, x, y, << >>))]

\* ChartGenerator.generate_line_chart
GenerateLineChart(data, now) ==
    IF data = None THEN NoDataOutcome
    ELSE IF DateCols(data) = {} \/ ColsOfDtype(data, "number") = {}
    THEN Outcome("unsuitable",
                 "Data doesn't have suitable date and numeric columns for line chart",
                 NoFile, data)
    ELSE IF ~ColumnConvertible(data, First(DateCols(data)))
    THEN Outcome("error", "Error generating line chart: ", NoFile, data)
    ELSE Outcome("generated", "Line chart generated successfully: ",
                 FileName("line_chart", now),
                 WithDatetimeColumn(data, First(DateCols(data))))

\* ChartGenerator.generate_pie_chart
GeneratePieChart(data, now) ==
    IF data = None THEN NoDataOutcome
    ELSE IF ColsOfDtype(data, "object") = {}
    THEN Outcome("unsuitable",
                 "Data doesn't have categorical columns for pie chart", NoFile, data)
    ELSE Outcome("generated", "Pie chart generated successfully: ",
                 FileName("pie_chart", now), data)

\* ChartGenerator.generate_heatmap
GenerateHeatmap(data, now) ==
    IF data = None THEN NoDataOutcome
    ELSE IF Cardinality(ColsOfDtype(data, "number")) < 2
    THEN Outcome("unsuitable",
                 "Need at least 2 numeric columns for correlation heatmap",
                 NoFile, data)
    ELSE Outcome("generated", "Heatmap generated successfully: ",
                 FileName("heatmap", now), data)

\* ChartGenerator.get_data_info
GetDataInfo(data, now) ==
    IF data = None THEN NoDataOutcome
    ELSE Outcome("info", "Data Information:", NoFile, data)

\* the registry of create_chart_tools
Capabilities == {"generate_bar_chart", "generate_line_chart",
                 "generate_pie_chart", "generate_heatmap", "get_data_info"}

Invoke(cap, data, now) ==
    CASE cap = "generate_bar_chart" -> GenerateBarChart(data, now)
      [] cap = "generate_line_chart" -> GenerateLineChart(data, now)
      [] cap = "generate_pie_chart" -> GeneratePieChart(data, now)
      [] cap = "generate_heatmap" -> GenerateHeatmap(data, now)
      [] cap = "get_data_info" -> GetDataInfo(data, now)

\* strftime("%Y%m%d_%H%M%S") of the clock: the second is the last digit
Stamp(now) ==
    <<"2","0","2","4","0","1","0","1","_","0","0","0","0","0", Digits[now + 1]>>

\* the file name as text: f"<kind>_{timestamp}.png"
FileText(f) ==
    IF f = NoFile THEN << >>
    ELSE Text(f.prefix) \o <<"_">> \o Stamp(f.ts) \o Text(".png")

\* the string a capability returns: its fixed text, then the file name if any
MessageText(text, file) == Text(text) \o FileText(file)

(***************************************************************************)
(* The output directory: the chart files, oldest change first.             *)
(***************************************************************************)
Without(dir, f) ==
    LET keep == {i \in 1..Len(dir) : dir[i] # f}
        nth(k) == CHOOSE i \in keep : Cardinality({j \in keep : j < i}) = k - 1
    IN [k \in 1..Cardinality(keep) |-> dir[nth(k)]]

\* plt.savefig(filepath): creates the file, or replaces the one of that name
SaveFig(dir, f) == Append(Without(dir, f), f)

Reverse(s) == [i \in 1..Len(s) |-> s[Len(s) + 1 - i]]

RecentLimit == 5

\* FinancialAnalysisAgent._get_recent_charts: every png of the directory,
\* newest first, cut to five
GetRecentCharts(dir) ==
    LET sorted == Reverse(dir)
    IN SubSeq(sorted, 1, IF Len(sorted) < RecentLimit THEN Len(sorted)
                         ELSE RecentLimit)

\* FinancialAnalysisAgent.get_data_summary
GetDataSummary(data) ==
    IF data # None
    THEN [loaded |-> TRUE, shape |-> Shape(data),
          columns |-> [i \in 1..Len(data.cols) |-> data.cols[i].name],
          data_types |-> [i \in 1..Len(data.cols) |-> data.cols[i].dtype]]
    ELSE [loaded |-> FALSE]

\* FinancialAnalysisAgent.load_data
AgentLoadData(data, context, p) ==
    LET r == ChartLoadData(data, context, p)
    IN [data |-> r.data, context |-> r.context,
        ret |-> IF r.ok
                THEN [status |-> "success",
                      message |-> "Data loaded successfully from ",
                      path |-> p, data_info |-> r.context]
                ELSE [status |-> "error",
                      message |-> "Failed to load data from ", path |-> p]]

(***************************************************************************)
(* Requests, answers of the reasoning service and their normalisation.     *)
(***************************************************************************)
\* a field the JSON object does not have; a value that is not a string
Absent == "<absent>"
NonString == "<non-string>"

\* dict.get(key, default)
Get(value, default) == IF value = Absent THEN default ELSE value

ChatMessages == {"Show revenue by month", "Liste a tabela"}

NoFileData == [shape |-> "absent", path |-> Absent]

FileDatas ==
    {NoFileData,
     [shape |-> "empty", path |-> Absent],
     [shape |-> "falsy", path |-> Absent],
     [shape |-> "nonobject", path |-> Absent]}
    \cup [shape : {"object"},
          path : {Absent, "", "sales.csv", "missing.csv", "broken.csv",
                  "notes.txt"}]

RequestIds == {Absent, "1", "2"}

\* the request file: not JSON at all, JSON that is no object, or an object
\* (load requests of every fileData, chat requests of every message, a
\* request of another type, and a chat request that carries a file)
Requests ==
    [body : {"unparseable", "nonobject"}, id : {Absent}, type : {Absent},
     message : {Absent}, fileData : {NoFileData}]
    \cup [body : {"object"}, id : RequestIds, type : {"load_data"},
          message : {Absent}, fileData : FileDatas]
    \cup [body : {"object"}, id : RequestIds, type : {Absent, "chat"},
          message : {Absent, NonString} \cup ChatMessages,
          fileData : {NoFileData}]
    \cup [body : {"object"}, id : RequestIds, type : {"export"},
          message : {"Show revenue by month"},
          fileData : {NoFileData, [shape |-> "object", path |-> "sales.csv"]}]
    \cup [body : {"object"}, id : {"1"}, type : {"chat"},
          message : {"Show revenue by month"},
          fileData : {[shape |-> "object", path |-> "sales.csv"]}]

NoRequest ==
    [body |-> "none", id |-> Absent, type |-> Absent, message |-> Absent,
     fileData |-> NoFileData]

\* bool(file_data): None ("absent"), {} ("empty") and the other falsy JSON
\* values [], 0, "", false ("falsy") are falsy; an object with keys and a
\* truthy value that is no object ("nonobject": [1], 5, "x", true) are truthy
Truthy(fd) == fd.shape \in {"nonobject", "object"}

\* a final answer: a plain string, a list of fragments, or a keyed object
StrAnswer(s) ==
    [shape |-> "str", text |-> s, hasText |-> FALSE, repr |-> s, items |-> << >>]
DictAnswer(hasText, s, repr) ==
    [shape |-> "dict", text |-> s, hasText |-> hasText, repr |-> repr,
     items |-> << >>]
ListAnswer(items) ==
    [shape |-> "list", text |-> "", hasText |-> FALSE, repr |-> "[...]",
     items |-> items]
Fragment(kind, hasText, s) == [kind |-> kind, hasText |-> hasText, text |-> s]

Answers ==
    {StrAnswer("Revenue is highest in March."),
     ListAnswer(<<Fragment("dict", TRUE, "Here is "),
                  Fragment("dict", FALSE, ""),
                  Fragment("int", FALSE, ""),
                  Fragment("str", FALSE, "the chart.")>>),
     DictAnswer(TRUE, "See the chart.", "{'text': 'See the chart.'}"),
     DictAnswer(FALSE, "", "{'note': 'done'}")}

\* what AgentExecutor returns when the iteration ceiling stops it
StoppedAnswer == StrAnswer("Agent stopped due to max iterations.")

RECURSIVE ConcatText(_)
ConcatText(items) ==
    IF items = << >> THEN ""
    ELSE LET item == items[1]
             piece == IF item.kind = "dict" /\ item.hasText THEN item.text
                      ELSE IF item.kind = "str" THEN item.text
                      ELSE ""
         IN piece \o ConcatText(Tail(items))

\* a variant of the normalisation without the branch for lists
NormalizeNoList(raw) ==
    IF raw.shape = "dict"
    THEN IF raw.hasText THEN raw.text ELSE raw.repr
    ELSE raw.repr

\* api_bridge.py:164-182, the display string of a raw response
Normalize(raw) ==
    IF raw.shape = "list" THEN ConcatText(raw.items)
    ELSE IF raw.shape = "dict"
         THEN IF raw.hasText THEN raw.text ELSE raw.repr
         ELSE raw.repr

\* the keywords of api_bridge.py:186; the second is spelled in the source
\* with the two characters U+221A U+2265 where an accented o was meant
Keywords == {"tabela", "relat<U+221A><U+2265>rio", "compare", "mostre dados",
             "gere uma", "liste", "breakdown"}

\* api_bridge.py:185-187
ShouldFormatTable(message) ==
    \E k \in Keywords : Contains(Text(k), Lower(Text(message)))

\* df.to_markdown(index=False): the rendered snapshot of a Table
ToMarkdown(table) ==
    [format |-> "markdown",
     header |-> [i \in 1..Len(table.cols) |-> table.cols[i].name],
     body |-> table.rows]
NoTableData == [format |-> "none", header |-> << >>, body |-> << >>]

(***************************************************************************)
(* State.                                                                  *)
(***************************************************************************)
VARIABLES
    clock,         \* the wall clock, in whole seconds
    outdir,        \* the chart files of the output directory, oldest first
    produced,      \* the file names this process's capabilities returned
    apiKey,        \* whether ANTHROPIC_API_KEY is set in the environment
    agent,         \* bridge.agent is set
    current_data,  \* ChartGenerator.current_data
    data_context,  \* ChartGenerator.data_context
    memory,        \* the turns of the ConversationBufferMemory
    pc,            \* "idle", or "deciding" inside AgentExecutor.invoke
    input,         \* the user message of the running chat
    history,       \* the chat_history handed to the reasoning service
    iterations,    \* iterations of the executor's loop the running chat completed
    decisions,     \* answers the reasoning service gave in the running chat
    batch,         \* tool calls of the current answer that have run so far
    invocations,   \* capabilities the running chat has invoked (0 when none runs)
    created,       \* the files written since the running chat began
    lastCall,      \* the last capability the running chat invoked, its outcome
    chats,         \* chat calls made on the agents of a direct caller
    exchanges,     \* chats completed on this agent since it was made or cleared
    result,        \* what the last call on the agent or bridge returned
    kpc,           \* process_kotlin_request: "idle", "chat", "done", "crashed"
    request,       \* the request record being handled
    written,       \* the records the handler wrote to the response file
    requests,      \* process_kotlin_request invocations so far
    priorLoad      \* the Table an earlier load_data request loaded, or None

vars == <<clock, outdir, produced, apiKey, agent, current_data, data_context,
          memory, pc, input, history, iterations, decisions, batch,
          invocations, created,
          lastCall, chats, exchanges, result, kpc, request, written, requests, priorLoad>>

envVars == <<clock, outdir, produced, apiKey>>
dataVars == <<current_data, data_context>>
loopVars == <<pc, input, history, iterations, decisions, batch, invocations,
              created, lastCall>>
kotlinVars == <<kpc, request, written, requests, priorLoad>>

NoCall == [cap |-> "none", kind |-> "none", text |-> "", file |-> NoFile]

\* a chart left in the output directory by an earlier process
OldChart == FileName("pie_chart", 0)

Init ==
    /\ clock = 1
    /\ outdir \in {<< >>, <<OldChart>>}
    /\ produced = << >>
    /\ apiKey \in BOOLEAN
    /\ agent = FALSE
    /\ current_data = None
    /\ data_context = EmptyContext
    /\ memory = << >>
    /\ pc = "idle"
    /\ input = ""
    /\ history = << >>
    /\ iterations = 0
    /\ decisions = 0
    /\ batch = 0
    /\ invocations = 0
    /\ created = {}
    /\ lastCall = NoCall
    /\ chats = 0
    /\ exchanges = 0
    /\ result = [op |-> "none"]
    /\ kpc = "idle"
    /\ request = NoRequest
    /\ written = << >>
    /\ requests = 0
    /\ priorLoad = None

\* a second passes
Tick ==
    /\ clock < MaxClock
    /\ clock' = clock + 1
    /\ UNCHANGED <<outdir, produced, apiKey, agent, dataVars, memory, loopVars,
                   chats, exchanges, result, kotlinVars>>

(***************************************************************************)
(* The bridge object used directly (the CLI commands, the tests).          *)
(***************************************************************************)
NotInitialized == [status |-> "error", message |-> "Agent not initialized"]

\* a variant of the constructor without the test of the key
AgentInitFailsNever(keyParam) == FALSE

\* FinancialAnalysisAgent.__init__: the key comes by parameter or environment
AgentInitFails(keyParam) == ~(keyParam \/ apiKey)

\* str(e) of the ValueError the constructor raises without a key
KeyMissing ==
    "ANTHROPIC_API_KEY not found in environment variables or parameters"

\* the message of a failed initialize_agent (api_bridge.py:38)
InitFailed == "Failed to initialize agent: " \o KeyMissing

\* FinancialAnalysisBridge.initialize_agent
InitializeAgent(keyParam) ==
    /\ pc = "idle" /\ kpc = "idle"
    /\ IF AgentInitFails(keyParam)
       THEN /\ result' = [op |-> "init", status |-> "error",
                          message |-> InitFailed, key |-> keyParam]
            /\ UNCHANGED <<agent, dataVars, memory, exchanges>>
       ELSE /\ result' = [op |-> "init", status |-> "success",
                          message |-> "Agent initialized successfully",
                          key |-> keyParam]
            /\ agent' = TRUE
            /\ current_data' = None
            /\ data_context' = EmptyContext
            /\ memory' = << >>
            /\ exchanges' = 0
    /\ UNCHANGED <<envVars, loopVars, chats, kotlinVars>>

\* FinancialAnalysisAgent.load_data on the bridge's agent
LoadData(p) ==
    /\ pc = "idle" /\ kpc = "idle"
    /\ agent
    /\ LET r == AgentLoadData(current_data, data_context, p)
       IN /\ current_data' = r.data
          /\ data_context' = r.context
          /\ result' = [op |-> "load", path |-> p, ret |-> r.ret,
                        before |-> <<current_data, data_context>>]
    /\ UNCHANGED <<envVars, agent, memory, loopVars, chats, exchanges,
                   kotlinVars>>

\* ChartGenerator.load_data called on the generator itself, which needs no
\* agent (demo.py:45-46)
GeneratorLoadData(p) ==
    /\ pc = "idle" /\ kpc = "idle"
    /\ \E r \in {ChartLoadData(current_data, data_context, p)} :
          /\ current_data' = r.data
          /\ data_context' = r.context
          /\ result' = [op |-> "generator_load", path |-> p, ok |-> r.ok,
                        before |-> <<current_data, data_context>>]
    /\ UNCHANGED <<envVars, agent, memory, loopVars, chats, exchanges,
                   kotlinVars>>

\* FinancialAnalysisBridge.clear_conversation
ClearConversation ==
    /\ pc = "idle" /\ kpc = "idle"
    /\ IF ~agent
       THEN /\ result' = [op |-> "clear", ret |-> NotInitialized]
            /\ UNCHANGED <<memory, exchanges>>
       ELSE /\ memory' = << >>
            /\ exchanges' = 0
            /\ result' = [op |-> "clear",
                          ret |-> [status |-> "success",
                                   message |-> "Conversation cleared"]]
    /\ UNCHANGED <<envVars, agent, dataVars, loopVars, chats, kotlinVars>>

\* FinancialAnalysisBridge.load_file: the file must exist before the agent
\* is asked to load it
LoadFile(p) ==
    /\ pc = "idle" /\ kpc = "idle"
    /\ IF ~agent
       THEN /\ result' = [op |-> "load_file", path |-> p, ret |-> NotInitialized]
            /\ UNCHANGED dataVars
       ELSE IF DiskKind(p) = "absent"
       THEN /\ result' = [op |-> "load_file", path |-> p,
                          ret |-> [status |-> "error",
                                   message |-> "File not found", path |-> p]]
            /\ UNCHANGED dataVars
       ELSE LET r == AgentLoadData(current_data, data_context, p)
            IN /\ current_data' = r.data
               /\ data_context' = r.context
               /\ result' = [op |-> "load_file", path |-> p, ret |-> r.ret]
    /\ UNCHANGED <<envVars, agent, memory, loopVars, chats, exchanges,
                   kotlinVars>>

\* a variant of get_data_summary without the test of self.agent: the call on
\* None raises for the caller
DataSummaryNoGuard ==
    /\ pc = "idle" /\ kpc = "idle"
    /\ result' = [op |-> "summary",
                  ret |-> IF ~agent
                          THEN [status |-> "raised", message |-> "AttributeError"]
                          ELSE GetDataSummary(current_data)]
    /\ UNCHANGED <<envVars, agent, dataVars, memory, loopVars, chats,
                   exchanges, kotlinVars>>

\* FinancialAnalysisBridge.get_data_summary
DataSummary ==
    /\ pc = "idle" /\ kpc = "idle"
    /\ result' = [op |-> "summary",
                  ret |-> IF ~agent THEN NotInitialized
                          ELSE GetDataSummary(current_data)]
    /\ UNCHANGED <<envVars, agent, dataVars, memory, loopVars, chats,
                   exchanges, kotlinVars>>

\* FinancialAnalysisBridge.get_conversation_history
ConversationHistory ==
    /\ pc = "idle" /\ kpc = "idle"
    /\ result' = [op |-> "history",
                  ret |-> IF ~agent THEN NotInitialized
                          ELSE [status |-> "success", history |-> memory]]
    /\ UNCHANGED <<envVars, agent, dataVars, memory, loopVars, chats,
                   exchanges, kotlinVars>>

\* the names a caller gives save_result: the default, and two png names, one
\* of them the name of a chart already in the directory
SaveNames == {"result.json", "summary_20240101_000000.png",
              "pie_chart_20240101_000000.png"}

\* the directory entry of a png name
DirEntry(name) ==
    IF name = "pie_chart_20240101_000000.png" THEN FileName("pie_chart", 0)
    ELSE FileName("summary", 0)

\* FinancialAnalysisBridge.save_result: a file of the caller's name is
\* written into the output directory; one that ends in .png is among the
\* files _get_recent_charts lists, as the newest
SaveResult(name) ==
    /\ pc = "idle" /\ kpc = "idle"
    /\ outdir' = IF EndsWith(Text(name), Text(".png"))
                 THEN SaveFig(outdir, DirEntry(name)) ELSE outdir
    /\ result' = [op |-> "save", path |-> name]
    /\ UNCHANGED <<clock, produced, apiKey, agent, dataVars, memory, loopVars,
                   chats, exchanges, kotlinVars>>

(***************************************************************************)
(* process_kotlin_request: the responses it writes.                        *)
(***************************************************************************)
Response(id, status, message) ==
    [id |-> id, status |-> status, message |-> message, detail |-> << >>,
     tableData |-> NoTableData, charts |-> << >>, error |-> ""]

\* request_data.get('id', 'unknown') (api_bridge.py:103)
RequestId(req) == Get(req.id, "unknown")

\* a variant of the except branch that never looks the id up
ErrorResponseIdLost(req) == "unknown"

\* the id of the except branch (api_bridge.py:219)
ErrorResponseId(req) ==
    IF req.body = "unparseable" THEN "unknown" ELSE Get(req.id, "unknown")

\* the except branch: the error response it writes
ExceptionResponse(req) ==
    [Response(ErrorResponseId(req), "error", "Bridge processing error: ")
        EXCEPT !.error = "exception"]

\* the except branch itself raises when request_data has no .get
HandlerRaises(req) == req.body = "nonobject"

\* the load_data branch after initialisation (api_bridge.py:119-158)
LoadResponse(req, load) ==
    IF load.ret.status = "success"
    THEN IF GetDataSummary(load.data).loaded /\ load.data # None
         THEN [Response(RequestId(req), "success", "Dados carregados com sucesso!")
                  EXCEPT !.detail = Shape(load.data),
                         !.tableData = ToMarkdown(load.data)]
         ELSE [Response(RequestId(req), "error", "Failed to load data")
                  EXCEPT !.error = load.ret.message]
    ELSE [Response(RequestId(req), "error", "Failed to load file")
             EXCEPT !.error = load.ret.message]

\* which branch of the dispatch a parsed request takes (api_bridge.py:119-208)
Branch(req) ==
    IF Get(req.type, "chat") = "load_data" /\ Truthy(req.fileData) THEN "load"
    ELSE IF Get(req.type, "chat") = "chat" THEN "chat"
    ELSE "unknown"

\* the chat branch once agent.chat has returned (api_bridge.py:164-201)
ChatResponse(req, chatResult, data) ==
    IF Get(req.message, "") = NonString
    THEN ExceptionResponse(req)
    ELSE [Response(RequestId(req), chatResult.status,
                   Normalize(chatResult.response))
             EXCEPT !.tableData =
                        IF ShouldFormatTable(Get(req.message, "")) /\ data # None
                        THEN ToMarkdown(data) ELSE NoTableData,
                    !.charts = chatResult.charts]

(***************************************************************************)
(* FinancialAnalysisAgent.chat: AgentExecutor.invoke, one tool call or one  *)
(* final answer a step.                                                    *)
(***************************************************************************)
\* AgentExecutor(max_iterations=5, early_stopping_method="force")
MaxIterations == 5

Turn(role, content) == [role |-> role, content |-> content]

\* a variant of the memory that saves the output only
SaveContextOutputOnly(mem, message, output) ==
    mem \o <<Turn("assistant", output)>>

\* ConversationBufferMemory.save_context: the input, then the output
SaveContext(mem, message, output) ==
    mem \o <<Turn("user", StrAnswer(message)), Turn("assistant", output)>>

\* the dict chat returns on success (financial_agent.py:131-135)
ChatSuccess(output, dir) ==
    [op |-> "chat", status |-> "success", response |-> output,
     charts |-> GetRecentCharts(dir)]

\* the dict chat returns when invoke raised (financial_agent.py:137-142)
ChatError ==
    [op |-> "chat", status |-> "error",
     response |-> StrAnswer("Error processing request: "), charts |-> << >>]

\* chat returns res to its caller: a direct caller keeps it, the request
\* handler builds the response from it and writes the response file
Return(res) ==
    /\ pc' = "idle"
    /\ result' = res
    /\ IF kpc = "chat"
       THEN /\ kpc' = "done"
            /\ written' = Append(written, ChatResponse(request, res, current_data))
            /\ UNCHANGED <<request, requests, priorLoad>>
       ELSE UNCHANGED kotlinVars

\* agent.chat entered: memory is read into the prompt
EnterChat(message) ==
    /\ pc' = "deciding"
    /\ input' = message
    /\ history' = memory
    /\ iterations' = 0
    /\ decisions' = 0
    /\ batch' = 0
    /\ invocations' = 0
    /\ created' = {}
    /\ lastCall' = NoCall

\* FinancialAnalysisBridge.process_chat
ProcessChat(message) ==
    /\ pc = "idle" /\ kpc = "idle"
    /\ chats < MaxChats
    /\ chats' = chats + 1
    /\ IF ~agent
       THEN /\ result' = [op |-> "process_chat", ret |-> NotInitialized]
            /\ UNCHANGED loopVars
       ELSE /\ EnterChat(message)
            /\ UNCHANGED result
    /\ UNCHANGED <<envVars, agent, dataVars, memory, exchanges, kotlinVars>>

\* the reasoning service gives a final answer
DecideFinal(answer) ==
    /\ pc = "deciding"
    /\ batch = 0
    /\ iterations < MaxIterations
    /\ decisions' = decisions + 1
    /\ memory' = SaveContext(memory, input, answer)
    /\ exchanges' = exchanges + 1
    /\ Return(ChatSuccess(answer, outdir))
    /\ invocations' = 0
    /\ UNCHANGED <<envVars, agent, dataVars, input, history, iterations,
                   batch, created, lastCall, chats>>

\* the reasoning service answers with tool calls (create_tool_calling_agent
\* makes a multi-action agent: one answer may hold several); the executor
\* runs them one after the other, here the next one, cap; the iteration is
\* complete when the answer's last tool call (more = FALSE) has run
DecideInvoke(cap) ==
    /\ pc = "deciding"
    /\ iterations < MaxIterations
    /\ \E o \in {Invoke(cap, current_data, clock)} :
          /\ o.file # NoFile => Len(produced) < MaxChatWrites
          /\ current_data' = o.data
          /\ outdir' = IF o.file # NoFile THEN SaveFig(outdir, o.file) ELSE outdir
          /\ produced' = IF o.file # NoFile THEN Append(produced, o.file)
                         ELSE produced
          /\ created' = IF o.file # NoFile THEN created \cup {o.file} ELSE created
          /\ lastCall' = [cap |-> cap, kind |-> o.kind, text |-> o.text,
                          file |-> o.file]
    /\ invocations' = invocations + 1
    /\ decisions' = IF batch = 0 THEN decisions + 1 ELSE decisions
    /\ \E more \in BOOLEAN :
          /\ more => (invocations + 1) - iterations <= MaxExtraCalls
          /\ batch' = IF more THEN batch + 1 ELSE 0
          /\ iterations' = IF more THEN iterations ELSE iterations + 1
    /\ UNCHANGED <<clock, apiKey, agent, data_context, memory, pc, input,
                   history, chats, exchanges, result, kotlinVars>>

\* a variant in which the user turn is saved before the failing call
DecideRaiseSavesInput ==
    /\ pc = "deciding"
    /\ batch = 0
    /\ iterations < MaxIterations
    /\ decisions' = decisions + 1
    /\ memory' = memory \o <<Turn("user", StrAnswer(input))>>
    /\ Return(ChatError)
    /\ invocations' = 0
    /\ UNCHANGED <<envVars, agent, dataVars, input, history, iterations,
                   batch, created, lastCall, chats, exchanges>>

\* the call to the reasoning service raises
DecideRaise ==
    /\ pc = "deciding"
    /\ batch = 0
    /\ iterations < MaxIterations
    /\ decisions' = decisions + 1
    /\ Return(ChatError)
    /\ invocations' = 0
    /\ UNCHANGED <<envVars, agent, dataVars, memory, input, history,
                   iterations, batch, created, lastCall, chats, exchanges>>

\* the iteration ceiling: the executor stops and returns its stopped answer
ForcedStop ==
    /\ pc = "deciding"
    /\ iterations >= MaxIterations
    /\ memory' = SaveContext(memory, input, StoppedAnswer)
    /\ exchanges' = exchanges + 1
    /\ Return(ChatSuccess(StoppedAnswer, outdir))
    /\ invocations' = 0
    /\ UNCHANGED <<envVars, agent, dataVars, input, history, iterations,
                   decisions, batch, created, lastCall, chats>>

(***************************************************************************)
(* process_kotlin_request.                                                 *)
(***************************************************************************)
\* the handler runs up to its end, or up to the point where agent.chat waits
\* for the reasoning service; a new bridge and a new agent each time
KotlinRequest(req) ==
    /\ pc = "idle" /\ kpc \in {"idle", "done", "crashed"}
    /\ requests < MaxRequests
    /\ requests' = requests + 1
    /\ request' = req
    /\ produced' = << >>
    /\ memory' = << >>
    /\ exchanges' = 0
    /\ result' = [op |-> "none"]
    /\ input' = IF req.body = "object" THEN Get(req.message, "") ELSE ""
    /\ history' = << >>
    /\ iterations' = 0
    /\ decisions' = 0
    /\ batch' = 0
    /\ invocations' = 0
    /\ created' = {}
    /\ lastCall' = NoCall
    /\ IF req.body = "unparseable"
       THEN \* json.load raises: the except branch answers
            /\ written' = <<ExceptionResponse(req)>>
            /\ kpc' = "done" /\ pc' = "idle"
            /\ agent' = FALSE
            /\ current_data' = None /\ data_context' = EmptyContext
            /\ UNCHANGED priorLoad
       ELSE IF HandlerRaises(req)
       THEN \* request_data.get raises, in the try and again in the except
            /\ written' = << >>
            /\ kpc' = "crashed" /\ pc' = "idle"
            /\ agent' = FALSE
            /\ current_data' = None /\ data_context' = EmptyContext
            /\ UNCHANGED priorLoad
       ELSE IF AgentInitFails(FALSE)
       THEN /\ written' = <<[Response(RequestId(req), "error",
                                      "Failed to initialize agent")
                                EXCEPT !.error = InitFailed]>>
            /\ kpc' = "done" /\ pc' = "idle"
            /\ agent' = FALSE
            /\ current_data' = None /\ data_context' = EmptyContext
            /\ UNCHANGED priorLoad
       ELSE /\ agent' = TRUE
            /\ IF Branch(req) = "load"
               THEN IF req.fileData.shape = "nonobject"
                    THEN \* file_data.get raises: the except branch answers
                         /\ written' = <<ExceptionResponse(req)>>
                         /\ kpc' = "done" /\ pc' = "idle"
                         /\ current_data' = None /\ data_context' = EmptyContext
                         /\ UNCHANGED priorLoad
                    ELSE IF Get(req.fileData.path, "") # ""
                    THEN LET load == AgentLoadData(None, EmptyContext,
                                                   req.fileData.path)
                         IN /\ written' = <<LoadResponse(req, load)>>
                            /\ kpc' = "done" /\ pc' = "idle"
                            /\ current_data' = load.data
                            /\ data_context' = load.context
                            /\ priorLoad' = IF load.ret.status = "success"
                                            THEN load.data ELSE priorLoad
                    ELSE /\ written' = <<Response(RequestId(req), "error",
                                                  "File path not provided")>>
                         /\ kpc' = "done" /\ pc' = "idle"
                         /\ current_data' = None /\ data_context' = EmptyContext
                         /\ UNCHANGED priorLoad
               ELSE IF Branch(req) = "chat"
               THEN \* bridge.process_chat: the loop of the new agent starts
                    /\ written' = << >>
                    /\ kpc' = "chat" /\ pc' = "deciding"
                    /\ current_data' = None /\ data_context' = EmptyContext
                    /\ UNCHANGED priorLoad
               ELSE /\ written' = <<[Response(RequestId(req), "error",
                                              "Unknown request type: ")
                                        EXCEPT !.detail = <<Get(req.type, "chat")>>]>>
                    /\ kpc' = "done" /\ pc' = "idle"
                    /\ current_data' = None /\ data_context' = EmptyContext
                    /\ UNCHANGED priorLoad
    /\ UNCHANGED <<clock, outdir, apiKey, chats>>

(***************************************************************************)
(* A capability called on the generator itself (demo.py, test_agent.py).   *)
(***************************************************************************)
CallCapability(cap) ==
    /\ pc = "idle" /\ kpc = "idle"
    /\ \E o \in {Invoke(cap, current_data, clock)} :
          /\ o.file # NoFile => Len(produced) < MaxWrites
          /\ current_data' = o.data
          /\ outdir' = IF o.file # NoFile THEN SaveFig(outdir, o.file) ELSE outdir
          /\ produced' = IF o.file # NoFile THEN Append(produced, o.file)
                         ELSE produced
          /\ result' = [op |-> "capability", cap |-> cap, kind |-> o.kind,
                        text |-> o.text, file |-> o.file,
                        before |-> <<current_data, data_context>>,
                        dir |-> outdir,
                        chart |-> IF cap = "generate_bar_chart"
                                     /\ o.kind = "generated"
                                  THEN BarChart(current_data) ELSE NoChart]
    /\ UNCHANGED <<clock, apiKey, agent, data_context, memory, loopVars, chats,
                   exchanges, kotlinVars>>

(***************************************************************************)
(* Specifications: the Table and the capabilities; the chat loop of an     *)
(* agent; the request handler.                                             *)
(***************************************************************************)
Next ==
    \/ Tick
    \/ \E k \in BOOLEAN : InitializeAgent(k)
    \/ \E p \in Paths : LoadData(p)
    \/ \E c \in Capabilities : CallCapability(c)

Spec == Init /\ [][Next]_vars

\* a ChartGenerator used on its own, no agent made (demo.py:44-56)
GeneratorNext ==
    \/ Tick
    \/ \E p \in Paths : GeneratorLoadData(p)
    \/ \E c \in Capabilities : CallCapability(c)

GeneratorSpec == Init /\ [][GeneratorNext]_vars

\* the inputs of the chat runs
ChatPaths == {"sales.csv"}
DirectMessages == {"Show revenue by month"}
DirectAnswers == {StrAnswer("Revenue is highest in March.")}

\* (the clock is held: the chat runs' claims do not read it)
ChatNext ==
    \/ \E k \in BOOLEAN : InitializeAgent(k)
    \/ \E p \in ChatPaths : LoadData(p)
    \/ ClearConversation
    \/ \E m \in DirectMessages : ProcessChat(m)
    \/ \E a \in DirectAnswers : DecideFinal(a)
    \/ \E c \in Capabilities : DecideInvoke(c)
    \/ DecideRaise
    \/ ForcedStop

ChatSpec == Init /\ [][ChatNext]_vars

KotlinNext ==
    \/ Tick
    \/ \E r \in Requests : KotlinRequest(r)
    \/ \E a \in Answers : DecideFinal(a)
    \/ \E c \in Capabilities : DecideInvoke(c)
    \/ DecideRaise
    \/ ForcedStop

KotlinSpec == Init /\ [][KotlinNext]_vars

\* the chat loop over Tables that each fail some capability's precondition:
\* no date column, one numeric column, no categorical column
ToolPaths == {"sales.csv", "daily.xlsx", "metrics.xls"}

ToolNext ==
    \/ \E k \in BOOLEAN : InitializeAgent(k)
    \/ \E p \in ToolPaths : LoadData(p)
    \/ \E m \in DirectMessages : chats < MaxToolChats /\ ProcessChat(m)
    \/ \E a \in DirectAnswers : DecideFinal(a)
    \/ \E c \in Capabilities : DecideInvoke(c)
    \/ DecideRaise
    \/ ForcedStop

\* the key is in the environment, so every agent asked for is made
ToolInit == Init /\ apiKey = TRUE

ToolSpec == ToolInit /\ [][ToolNext]_vars

\* the operations of the bridge object, the reasoning service answering or
\* failing at once
BridgeNext ==
    \/ \E k \in BOOLEAN : InitializeAgent(k)
    \/ \E p \in Paths : LoadFile(p)
    \/ \E n \in SaveNames : SaveResult(n)
    \/ DataSummary
    \/ ConversationHistory
    \/ ClearConversation
    \/ \E m \in DirectMessages : ProcessChat(m)
    \/ \E a \in DirectAnswers : DecideFinal(a)
    \/ DecideRaise

BridgeSpec == Init /\ [][BridgeNext]_vars

\* initialize_agent as both of its callers use it: a direct caller with or
\* without a key parameter, then the request handler without one
InitNext ==
    \/ \E k \in BOOLEAN : InitializeAgent(k)
    \/ \E r \in Requests : KotlinRequest(r)
    \/ \E a \in DirectAnswers : DecideFinal(a)
    \/ DecideRaise

InitSpec == Init /\ [][InitNext]_vars

(***************************************************************************)
(* Properties.                                                             *)
(***************************************************************************)
Range(seq) == {seq[i] : i \in 1..Len(seq)}

\* the handler has come to its end, by return or by an escaping exception
HandlerEnded == kpc \in {"done", "crashed"}

\* C1: every invocation of process_kotlin_request, whatever the request file
\* holds and however dispatch ends, writes exactly one response record before
\* it finishes, and no failure escapes the handler.
C1_OneResponseAlways ==
    HandlerEnded => (kpc = "done" /\ Len(written) = 1)

\* C2: a written response carries the id of the request when the body was
\* parseable (the sentinel "unknown" when the object has no id), on every
\* path; when the body is not parseable it is an error response with id
\* "unknown".
C2_ResponseIdIsRequestId ==
    \A i \in 1..Len(written) :
        IF request.body = "unparseable"
        THEN written[i].status = "error" /\ written[i].id = "unknown"
        ELSE /\ request.id # Absent => written[i].id = request.id
             /\ request.id = Absent => written[i].id = "unknown"

\* C2 witness: a request with id "2" whose dispatch raised after the chat
\* (a message that is no string) has its error response written.
C2_Witness ==
    /\ kpc = "done"
    /\ request.id = "2"
    /\ request.message = NonString
    /\ Len(written) = 1
    /\ written[1].message = "Bridge processing error: "
    /\ written[1].id = "2"

\* C3: a failed load leaves the active Table and its Context as they were
\* before the call, and a successful load makes the loaded file's Table the
\* active one; so after any sequence of loads the active Table is that of
\* the last successful load.
C3_FailedLoadKeepsTable ==
    result.op = "load" =>
        IF result.ret.status = "error"
        THEN <<current_data, data_context>> = result.before
        ELSE /\ current_data = DiskTable(result.path)
             /\ data_context = ContextOf(DiskTable(result.path))

\* C3 witness: a load of malformed content has failed while a Table was
\* active.
C3_Witness ==
    /\ result.op = "load"
    /\ result.path = "broken.csv"
    /\ result.ret.status = "error"
    /\ current_data # None

\* C4: after a successful load of a file with R rows and C columns the
\* summary reports loaded with shape (R, C) and the Table is the file's; and
\* in every reachable state the stored Context (columns, shape, types,
\* sample) describes the currently active Table.
C4_ContextDescribesTable ==
    /\ (result.op = "load" /\ result.ret.status = "success") =>
          /\ GetDataSummary(current_data).loaded
          /\ GetDataSummary(current_data).shape = Shape(DiskTable(result.path))
          /\ current_data = DiskTable(result.path)
    /\ IF current_data = None
       THEN data_context = EmptyContext
       ELSE data_context = ContextOf(current_data)

\* C5: after N completed chat exchanges on one agent the memory holds
\* exactly 2N turns, user then assistant, each exchange appended after the
\* turns that were there; after clear_conversation the length is 0 and the
\* next exchange is handed an empty history.
C5_MemoryTwoTurnsPerExchange ==
    /\ Len(memory) = 2 * exchanges
    /\ \A i \in 1..Len(memory) :
          memory[i].role = IF i % 2 = 1 THEN "user" ELSE "assistant"
    /\ (pc = "idle" /\ result.op = "chat" /\ result.status = "success") =>
          memory = history \o <<Turn("user", StrAnswer(input)),
                                 Turn("assistant", result.response)>>
    /\ (pc = "idle" /\ result.op = "clear" /\ agent) => Len(memory) = 0
    /\ (pc = "deciding" /\ exchanges = 0) => history = << >>

\* C5 witness: two exchanges are completed and four turns are held.
C5_Witness ==
    /\ pc = "idle"
    /\ exchanges = 2
    /\ Len(memory) = 4
    /\ result.op = "chat"

\* C6: a chat makes at most 5 decision steps and so at most 5 capability
\* invocations, whatever the reasoning service answers, and a chat stopped at
\* the ceiling returns status "success" with the executor's stopped answer.
C6_LoopBoundedForcedSuccess ==
    /\ iterations <= 5
    /\ decisions <= 5
    /\ invocations <= 5
    /\ (pc = "idle" /\ result.op = "chat" /\ decisions = iterations
          /\ iterations = 5) =>
          /\ result.status = "success"
          /\ result.response = StoppedAnswer

\* C7: the charts list a chat returns holds exactly the artifacts the
\* capabilities of that chat's loop created: none that existed before the
\* loop began, and none at all when no capability wrote one.
C7_ChartsAreThisChatsArtifacts ==
    (pc = "idle" /\ result.op = "chat" /\ result.status = "success") =>
        Range(result.charts) = created

\* C8: through the bridge, after a load_data request has succeeded for a
\* Table with a categorical and a numeric column, a following chat request in
\* which the reasoning service invokes the bar capability is answered with
\* status "success" and a non-empty charts list of bar_chart_* names only.
C8_ChatAfterLoadGetsBarChart ==
    (/\ kpc = "done"
     /\ priorLoad = SalesTable
     /\ Branch(request) = "chat"
     /\ request.message \in ChatMessages
     /\ lastCall.cap = "generate_bar_chart"
     /\ result.op = "chat" /\ result.status = "success") =>
        /\ Len(written) = 1
        /\ written[1].status = "success"
        /\ written[1].charts # << >>
        /\ \A i \in 1..Len(written[1].charts) :
              written[1].charts[i].prefix = "bar_chart"

\* C9: dispatch is decided by the type: a type that is neither "load_data"
\* nor "chat" is answered as an unknown request type with neither the loader
\* nor the loop run, and a "load_data" or "chat" request is never answered
\* as an unknown request type.
C9_DispatchByType ==
    (kpc = "done" /\ request.body = "object" /\ agent) =>
        LET type == Get(request.type, "chat")
            unknown == written[1].message = "Unknown request type: "
        IN /\ type \notin {"load_data", "chat"} =>
                 unknown /\ current_data = None /\ decisions = 0
           /\ type \in {"load_data", "chat"} => ~unknown

\* C10: within one process any two successful chart-producing invocations
\* write to distinct file names, also two of the same kind within one second.
C10_DistinctFileNames ==
    \A i, j \in 1..Len(produced) : i # j => produced[i] # produced[j]

\* the last call was capability cap, made on an active Table
CalledOnTable(cap) ==
    /\ result.op = "capability"
    /\ result.cap = cap
    /\ result.before[1] # None

\* C11: the heatmap capability on an active Table with fewer than 2 numeric
\* columns returns a failure text and writes no artifact; with 2 or more it
\* writes exactly one artifact and the message it returns contains the word
\* "correlation".
C11_HeatmapContract ==
    CalledOnTable("generate_heatmap") =>
        IF Cardinality(ColsOfDtype(result.before[1], "number")) < 2
        THEN /\ result.kind = "unsuitable"
             /\ MessageText(result.text, result.file) # << >>
             /\ result.file = NoFile
             /\ outdir = result.dir
        ELSE /\ result.file.prefix = "heatmap"
             /\ outdir = SaveFig(result.dir, result.file)
             /\ Contains(Text("correlation"),
                         Lower(MessageText(result.text, result.file)))

\* the column precondition of a capability, as its contract states it
PreconditionMet(cap, table) ==
    CASE cap = "generate_bar_chart" ->
           /\ \E i \in 1..Len(table.cols) : table.cols[i].dtype = "object"
           /\ \E i \in 1..Len(table.cols) : table.cols[i].dtype = "number"
      [] cap = "generate_line_chart" ->
           /\ DateCols(table) # {}
           /\ \E i \in 1..Len(table.cols) : table.cols[i].dtype = "number"
      [] cap = "generate_pie_chart" ->
           \E i \in 1..Len(table.cols) : table.cols[i].dtype = "object"
      [] cap = "generate_heatmap" ->
           \E i, j \in 1..Len(table.cols) :
              i # j /\ table.cols[i].dtype = "number"
                    /\ table.cols[j].dtype = "number"
      [] OTHER -> TRUE

\* C12: a capability invoked by a chat with no Table active, or on a Table
\* that does not meet its column precondition, returns a non-empty message
\* (one saying "No data loaded" when no Table is active), writes no artifact
\* and raises nothing: the loop goes on, and the chat ends with status
\* "success" when the reasoning service then answers.
C12_GracefulCapabilities ==
    [][/\ (invocations' = invocations + 1
            /\ (current_data = None
                  \/ ~PreconditionMet(lastCall'.cap, current_data))) =>
              /\ MessageText(lastCall'.text, lastCall'.file) # << >>
              /\ current_data = None =>
                    Contains(Text("No data loaded"),
                             MessageText(lastCall'.text, lastCall'.file))
              /\ lastCall'.file = NoFile
              /\ outdir' = outdir
              /\ pc' = "deciding"
              /\ result' = result
       /\ (pc = "deciding" /\ pc' = "idle"
            /\ lastCall.kind \in {"no_data", "unsuitable"}
            /\ memory' # memory) =>
              result'.status = "success"]_vars

\* C12 witness: a chat whose loop invoked the pie capability on a Table
\* without a categorical column has ended with status "success".
C12_Witness ==
    /\ pc = "idle"
    /\ result.op = "chat"
    /\ result.status = "success"
    /\ current_data = MetricsTable
    /\ lastCall.cap = "generate_pie_chart"
    /\ lastCall.kind = "unsuitable"
    /\ lastCall.file = NoFile

\* the operations of the bridge that need the agent
BridgeOps == {"load_file", "process_chat", "summary", "history", "clear"}

\* C13: load_file, process_chat, get_data_summary, get_conversation_history
\* and clear_conversation, called before a successful initialize_agent,
\* return status "error" with a message saying the agent is not initialized
\* and change no state; once initialize_agent has succeeded none of them
\* returns that error.
C13_NotInitializedUntilInit ==
    [][/\ (~agent /\ result' # result /\ result'.op \in BridgeOps) =>
              /\ result'.ret.status = "error"
              /\ Contains(Text("not initialized"),
                          Lower(Text(result'.ret.message)))
              /\ UNCHANGED <<agent, current_data, data_context, memory,
                             outdir, produced, pc>>
       /\ (~agent /\ ~agent') =>
              /\ result'.op \in {"none", "init", "save"} \cup BridgeOps
              /\ UNCHANGED <<current_data, data_context, memory, pc>>
       /\ (agent /\ result' # result) =>
              /\ result'.op \in BridgeOps => result'.ret # NotInitialized
              /\ result'.op = "chat" =>
                    ~Contains(Text("not initialized"),
                              Lower(Text(result'.response.text)))]_vars

\* C13 witness: the summary was asked of a bridge whose agent is not
\* initialized and the error came back.
C13_Witness ==
    /\ ~agent
    /\ result.op = "summary"
    /\ result.ret = NotInitialized
    /\ current_data = None

\* the kind of failure a load of path p is, in the contract's taxonomy
FailureKind(p) ==
    CASE DiskKind(p) = "absent" -> "NotFound"
      [] DiskKind(p) # "absent" /\ Extension(p) = "unsupported"
           -> "UnsupportedFormat"
      [] DiskKind(p) = "malformed" /\ Extension(p) # "unsupported"
           -> "ParseError"
      [] OTHER -> "none"

FailingPaths == {p \in Paths : FailureKind(p) # "none"}

\* what a load result or a load response says about the failure
Report(r) == <<r.status, r.message>>
ResponseReport(r) == <<r.status, r.message, r.error>>

\* C14: a failed load reports its kind of failure: the result returned to
\* the caller and the error response written for a load_data request differ
\* from those of a load that fails in another way (NotFound for a missing
\* path, UnsupportedFormat for an unknown extension, ParseError for
\* malformed content).
C14_LoadFailureKinds ==
    (/\ kpc = "done"
     /\ request.body = "object"
     /\ agent
     /\ Branch(request) = "load"
     /\ request.fileData.shape = "object"
     /\ request.fileData.path \in FailingPaths) =>
        \A q \in FailingPaths :
            FailureKind(q) # FailureKind(request.fileData.path) =>
                LET other == AgentLoadData(None, EmptyContext, q)
                IN /\ Report(other.ret)
                        # Report(AgentLoadData(None, EmptyContext,
                                               request.fileData.path).ret)
                   /\ ResponseReport(LoadResponse(request, other))
                        # ResponseReport(written[1])

\* C15: without an API credential by parameter or environment the
\* initialization fails with a descriptive error and no crash:
\* initialize_agent returns status "error" and leaves the bridge's agent as
\* it was (unset on a new bridge), and a bridge request is answered with
\* status "error", the request's id and the initialization error text, with
\* neither load nor chat run.
C15_NoCredentialInitError ==
    [][/\ (kpc' = "idle" /\ result'.op = "init" /\ ~result'.key /\ ~apiKey) =>
              /\ result'.status = "error"
              /\ Contains(Text("ANTHROPIC_API_KEY"), Text(result'.message))
              /\ agent' = agent
              /\ UNCHANGED <<current_data, data_context, memory>>
       /\ (requests' = requests + 1 /\ request'.body = "object" /\ ~apiKey) =>
              /\ kpc' = "done"
              /\ Len(written') = 1
              /\ written'[1].status = "error"
              /\ written'[1].id = Get(request'.id, "unknown")
              /\ written'[1].error = InitFailed
              /\ ~agent'
              /\ current_data' = None
              /\ pc' = "idle"]_vars

\* C15 witness: a load_data request for an existing file was answered with
\* the initialization error, and nothing was loaded.
C15_Witness ==
    /\ ~apiKey
    /\ kpc = "done"
    /\ request.type = "load_data"
    /\ request.fileData.path = "sales.csv"
    /\ request.id = "1"
    /\ written[1].id = "1"
    /\ written[1].error = InitFailed
    /\ current_data = None

\* the sum of column y over the rows of the index set S
RECURSIVE SumRows(_, _, _)
SumRows(table, y, S) ==
    IF S = {} THEN 0
    ELSE LET r == CHOOSE r \in S : TRUE
         IN table.rows[r][y].n + SumRows(table, y, S \ {r})

\* C16: on a Table with a categorical and a numeric column the bar
\* capability takes as x the first categorical and as y the first numeric
\* column in column order, draws one bar for each value of x with the sum of
\* y over its rows, in descending order of the sums, and writes exactly one
\* artifact bar_chart_<timestamp> which its success message names.
C16_BarChartGroupsSumsSorts ==
    LET t == result.before[1]
        isObj(i) == t.cols[i].dtype = "object"
        isNum(i) == t.cols[i].dtype = "number"
    IN (/\ CalledOnTable("generate_bar_chart")
        /\ \E i \in 1..Len(t.cols) : isObj(i)
        /\ \E i \in 1..Len(t.cols) : isNum(i)) =>
          LET x == CHOOSE i \in 1..Len(t.cols) :
                      isObj(i) /\ \A j \in 1..(i - 1) : ~isObj(j)
              y == CHOOSE i \in 1..Len(t.cols) :
                      isNum(i) /\ \A j \in 1..(i - 1) : ~isNum(j)
              bars == result.chart.bars
          IN /\ result.chart.x = t.cols[x].name
             /\ result.chart.y = t.cols[y].name
             /\ {bars[i].key : i \in 1..Len(bars)}
                   = {t.rows[r][x] : r \in 1..Len(t.rows)}
             /\ \A i, j \in 1..Len(bars) : bars[i].key = bars[j].key => i = j
             /\ \A i \in 1..Len(bars) :
                   bars[i].sum
                     = SumRows(t, y, {r \in 1..Len(t.rows) :
                                        t.rows[r][x] = bars[i].key})
             /\ \A i, j \in 1..Len(bars) :
                   i < j => bars[i].sum >= bars[j].sum
             /\ result.kind = "generated"
             /\ result.file.prefix = "bar_chart"
             /\ outdir = SaveFig(result.dir, result.file)
             /\ result.text = "Bar chart generated successfully: "
             /\ Contains(FileText(result.file),
                         MessageText(result.text, result.file))

\* C16 witness: on a generator used without an agent the bar chart of the
\* sales Table is drawn: Revenue by Month,
\* Mar 62, Jan 60 (two rows), Feb 55.
C16_Witness ==
    /\ ~agent
    /\ CalledOnTable("generate_bar_chart")
    /\ result.before[1] = SalesTable
    /\ result.chart.x = "Month"
    /\ result.chart.y = "Revenue"
    /\ result.chart.bars = <<[key |-> StrCell("Mar"), sum |-> 62],
                             [key |-> StrCell("Jan"), sum |-> 60],
                             [key |-> StrCell("Feb"), sum |-> 55]>>
    /\ result.file.prefix = "bar_chart"

\* the trigger words the contract names
TriggerWords == {"table", "report", "compare", "list", "breakdown"}

HasTriggerWord(message) ==
    \E w \in TriggerWords : Contains(Text(w), Lower(Text(message)))

\* C17: the response to a chat request carries a rendered table snapshot
\* exactly when the message contains a trigger word (in any letter case) and
\* a Table is active, that is, a load_data request has loaded one; whether a
\* chart capability was invoked plays no part.
C17_TableSnapshotOnTrigger ==
    (/\ kpc = "done"
     /\ request.body = "object"
     /\ agent
     /\ Branch(request) = "chat"
     /\ request.message \in ChatMessages) =>
        IF HasTriggerWord(request.message) /\ priorLoad # None
        THEN written[1].tableData = ToMarkdown(priorLoad)
        ELSE written[1].tableData = NoTableData

\* the texts of the first n fragments of a list, joined in order
RECURSIVE JoinTexts(_, _)
JoinTexts(items, n) ==
    IF n = 0 THEN ""
    ELSE JoinTexts(items, n - 1)
         \o (CASE items[n].kind = "str" -> items[n].text
               [] items[n].kind = "dict" /\ items[n].hasText -> items[n].text
               [] OTHER -> "")

\* C18: the message of a chat response is the loop's final answer made one
\* string: of a list, the texts of its fragments joined in order (the "text"
\* field of objects, the plain strings, nothing for other items); of a keyed
\* object, its "text" field, or its string form without one; of anything
\* else, its string form. Every response message is a string.
C18_NormalizedAnswer ==
    /\ (/\ kpc = "done"
        /\ result.op = "chat"
        /\ request.message # NonString) =>
          LET raw == result.response
          IN written[1].message =
                CASE raw.shape = "list" -> JoinTexts(raw.items, Len(raw.items))
                  [] raw.shape = "dict" /\ raw.hasText -> raw.text
                  [] OTHER -> raw.repr
    /\ \A i \in 1..Len(written) : written[i].message \in STRING

\* C18 witness: a list of four fragments (an object with text, an object
\* without, a number, a plain string) was answered as one string.
C18_Witness ==
    /\ kpc = "done"
    /\ result.op = "chat"
    /\ result.response.shape = "list"
    /\ Len(result.response.items) = 4
    /\ written[1].message = "Here is the chart."

\* the Tables a successful load can make active
LoadableTables ==
    {DiskTable(p) : p \in {q \in Paths : /\ DiskKind(q) = "table"
                                         /\ Extension(q) # "unsupported"}}

\* C19: a capability leaves the active Table and its Context as they were,
\* so its outcome is the one it has on the last loaded Table, whatever
\* capabilities ran before it: the bar capability selects the same columns,
\* or fails the same way, with or without an earlier line chart.
C19_CapabilitiesKeepTable ==
    CalledOnTable(result.cap) =>
        /\ current_data = result.before[1]
        /\ data_context = result.before[2]
        /\ LET loaded == CHOOSE t \in LoadableTables :
                             ContextOf(t) = data_context
           IN /\ result.kind = Invoke(result.cap, loaded, 0).kind
              /\ result.text = Invoke(result.cap, loaded, 0).text

\* C20: a chat whose orchestration raises returns status "error" with no
\* charts and leaves the memory as it was when the chat began; the memory
\* holds an even number of turns after every chat, failed or not.
C20_FailedChatKeepsMemory ==
    /\ (pc = "idle" /\ result.op = "chat" /\ result.status = "error") =>
          /\ result.charts = << >>
          /\ memory = history
    /\ pc = "idle" => Len(memory) % 2 = 0

\* C20 witness: a chat failed after an exchange that had succeeded, and
\* the two turns of that exchange are what the memory holds.
C20_Witness ==
    /\ pc = "idle"
    /\ result.op = "chat"
    /\ result.status = "error"
    /\ Len(memory) = 2
    /\ exchanges = 1

====
